---- MODULE Spec2Model ----
(***************************************************************************)
(* A model of pdnstui.py: the PowerDNS gateway (PDNSManager), the modal    *)
(* forms, the zone list screen, the record list screen and the            *)
(* application start-up.                                                   *)
(*                                                                         *)
(* Python strings are modelled as sequences of one-character strings, so   *)
(* that lower(), strip(), `in`, endswith() and int() are computed and not  *)
(* assumed.  A dict is a record whose DOMAIN holds the keys present.       *)
(***************************************************************************)
EXTENDS Integers, Sequences, FiniteSets, TLC

\* ------------------------------------------------------------------ bounds

NumServers == 2
MaxZones == 2
MaxRRSets == 3
\* how many accepted changes of the servers' content a behaviour holds
MaxMutations == 1
\* how many failed remote calls a behaviour holds
MaxFailures == 1

\* ----------------------------------------------------------------- strings

LowerChar(c) ==
  CASE c = "A" -> "a" [] c = "B" -> "b" [] c = "C" -> "c" [] c = "D" -> "d"
    [] c = "E" -> "e" [] c = "F" -> "f" [] c = "G" -> "g" [] c = "H" -> "h"
    [] c = "I" -> "i" [] c = "J" -> "j" [] c = "K" -> "k" [] c = "L" -> "l"
    [] c = "M" -> "m" [] c = "N" -> "n" [] c = "O" -> "o" [] c = "P" -> "p"
    [] c = "Q" -> "q" [] c = "R" -> "r" [] c = "S" -> "s" [] c = "T" -> "t"
    [] c = "U" -> "u" [] c = "V" -> "v" [] c = "W" -> "w" [] c = "X" -> "x"
    [] c = "Y" -> "y" [] c = "Z" -> "z" [] OTHER -> c

RECURSIVE Lower(_)
Lower(s) == IF s = <<>> THEN <<>> ELSE <<LowerChar(Head(s))>> \o Lower(Tail(s))

\* Python's `sub in s`
Contains(sub, s) ==
  \E i \in 0..(Len(s) - Len(sub)) : SubSeq(s, i + 1, i + Len(sub)) = sub

EndsWith(s, suffix) ==
  /\ Len(suffix) <= Len(s)
  /\ SubSeq(s, Len(s) - Len(suffix) + 1, Len(s)) = suffix

IsSpace(c) == c = " "

RECURSIVE LStrip(_)
LStrip(s) == IF s # <<>> /\ IsSpace(Head(s)) THEN LStrip(Tail(s)) ELSE s

RECURSIVE RStrip(_)
RStrip(s) ==
  IF s # <<>> /\ IsSpace(s[Len(s)]) THEN RStrip(SubSeq(s, 1, Len(s) - 1)) ELSE s

Strip(s) == RStrip(LStrip(s))

DigitChars == <<"0", "1", "2", "3", "4", "5", "6", "7", "8", "9">>

\* str(n) of an integer n >= 0
RECURSIVE DecStr(_)
DecStr(n) ==
  IF n < 0 THEN <<"-">> \o DecStr(-n)
  ELSE IF n < 10 THEN <<DigitChars[n + 1]>>
  ELSE DecStr(n \div 10) \o <<DigitChars[(n % 10) + 1]>>

\* s.split(sep) for a one-character sep
RECURSIVE SplitFrom(_, _, _)
SplitFrom(s, sep, cur) ==
  IF s = <<>> THEN <<cur>>
  ELSE IF Head(s) = sep THEN <<cur>> \o SplitFrom(Tail(s), sep, <<>>)
  ELSE SplitFrom(Tail(s), sep, Append(cur, Head(s)))

Split(s, sep) == SplitFrom(s, sep, <<>>)

IsDigit(c) == \E d \in 1..10 : DigitChars[d] = c
DigitVal(c) == (CHOOSE d \in 1..10 : DigitChars[d] = c) - 1

RECURSIVE DigitsValue(_, _)
DigitsValue(s, acc) ==
  IF s = <<>> THEN acc
  ELSE DigitsValue(Tail(s), IF Head(s) = "_" THEN acc ELSE acc * 10 + DigitVal(Head(s)))

\* int(s): blanks around, an optional sign, then digits, with single
\* underscores allowed between digits; ok is FALSE where int() raises.
ParseInt(s) ==
  LET t == Strip(s)
      signed == t # <<>> /\ Head(t) \in {"+", "-"}
      body == IF signed THEN Tail(t) ELSE t
      ok == /\ body # <<>>
            /\ \A i \in 1..Len(body) : IsDigit(body[i]) \/ body[i] = "_"
            /\ IsDigit(body[1]) /\ IsDigit(body[Len(body)])
            /\ \A i \in 1..(Len(body) - 1) : ~(body[i] = "_" /\ body[i + 1] = "_")
  IN  IF ~ok THEN [ok |-> FALSE, value |-> 0]
      ELSE [ok |-> TRUE,
            value |-> IF signed /\ Head(t) = "-" THEN 0 - DigitsValue(body, 0)
                      ELSE DigitsValue(body, 0)]

\* dict.get(key, default)
DictGet(d, k, default) == IF k \in DOMAIN d THEN d[k] ELSE default

RECURSIVE Flatten(_)
Flatten(ss) == IF ss = <<>> THEN <<>> ELSE Head(ss) \o Flatten(Tail(ss))

\* ----------------------------------------------------- configuration, remote

sNA == <<"N", "/", "A">>
sNative == <<"N", "a", "t", "i", "v", "e">>
sMaster == <<"M", "a", "s", "t", "e", "r">>
sSlave == <<"S", "l", "a", "v", "e">>
sSOA == <<"S", "O", "A">>
sA == <<"A">>
sTXT == <<"T", "X", "T">>
sDot == <<".">>

ServerIds == 1..NumServers

Digit(i) == CASE i = 1 -> "1" [] i = 2 -> "2" [] i = 3 -> "3" [] OTHER -> "9"

\* Config.servers: one profile per configured server; the URL is kept by its
\* host part, which is all the program reads of it besides the API path.
ConfigServers ==
  [i \in ServerIds |-> [name |-> <<"P", Digit(i)>>, host |-> <<"N", "S", Digit(i)>>]]

\* PDNSManager.__init__: urlparse(url).hostname is the host in lower case.
Fqdn(s) == Lower(ConfigServers[s].host)
ManagerName(s) == ConfigServers[s].name

NewManager == [connected |-> FALSE, api_server |-> "None"]

\* ------------------------------------------------------------- exceptions

NoExc == [type |-> "none"]
TransportError == [type |-> "transport"]
DomainError(msg, cause) == [type |-> "Exception", msg |-> msg, cause |-> cause]

Wire(op, s, arg, ok) == [op |-> op, srv |-> s, arg |-> arg, ok |-> ok]

Returned(m, value, calls) ==
  [m |-> m, raised |-> FALSE, exc |-> NoExc, value |-> value, calls |-> calls]
Raised(m, exc, calls) ==
  [m |-> m, raised |-> TRUE, exc |-> exc, value |-> FALSE, calls |-> calls]

ConnOutcomes == {"ok", "noservers", "error"}
CallOutcomes == {"ok", "error"}
Nets == [conn : ConnOutcomes, call : CallOutcomes]

\* ------------------------------------------------------------ PDNSManager

\* connect(): outcome "noservers" is an empty api.servers list, "error" a
\* transport failure while opening the session or listing the servers.
Connect(s, m, outcome) ==
  IF outcome = "ok"
  THEN Returned([m EXCEPT !.api_server = "servers[0]", !.connected = TRUE], TRUE,
                <<Wire("connect", s, <<>>, TRUE)>>)
  ELSE Raised([m EXCEPT !.connected = FALSE],
              DomainError(<<"Failed to connect to ", ManagerName(s)>>,
                          IF outcome = "noservers"
                          THEN DomainError(<<"No servers found">>, NoExc)
                          ELSE TransportError),
              <<Wire("connect", s, <<>>, FALSE)>>)

\* self.connect() as the first statement of every operation, without the if
EnsureConnectedAlways(s, m, net) == Connect(s, m, net.conn)

\* `if not self.connected: self.connect()`, the first statement of every operation
EnsureConnected(s, m, net) ==
  IF ~m.connected THEN Connect(s, m, net.conn) ELSE Returned(m, TRUE, <<>>)

\* get_zones(): rz is the server's zone list
GetZones(s, m, net, rz) ==
  LET c == EnsureConnected(s, m, net)
  IN  IF c.raised THEN c
      ELSE IF net.call = "ok"
      THEN Returned(c.m, rz, c.calls \o <<Wire("zones", s, <<>>, TRUE)>>)
      ELSE Raised(c.m, DomainError(<<"Failed to get zones: ">>, TransportError),
                  c.calls \o <<Wire("zones", s, <<>>, FALSE)>>)

NoneValue == [isNone |-> TRUE]

FindZone(rz, zone_id) ==
  LET hits == SelectSeq(rz, LAMBDA z : z.name = zone_id)
  IN  IF hits = <<>> THEN NoneValue ELSE Head(hits)

\* get_zone(): no try block, a transport failure leaves as it is
GetZone(s, m, zone_id, net, rz) ==
  LET c == EnsureConnected(s, m, net)
  IN  IF c.raised THEN c
      ELSE IF net.call = "ok"
      THEN Returned(c.m, FindZone(rz, zone_id),
                    c.calls \o <<Wire("get_zone", s, zone_id, TRUE)>>)
      ELSE Raised(c.m, TransportError,
                  c.calls \o <<Wire("get_zone", s, zone_id, FALSE)>>)

\* ---------------------------------------------------------------- RRSet

\* powerdns.RRSet(name, rtype, records, ttl): records are (content, disabled)
\* pairs; the ttl defaults to 3600.
RRSetDefaultTtl == 3600
RRSet(name, rtype, records, ttl) ==
  [name |-> name, type |-> rtype, ttl |-> ttl,
   records |-> [i \in 1..Len(records) |->
                  [content |-> records[i][1], disabled |-> records[i][2]]]]

SameKey(a, b) == a.name = b.name /\ a.type = b.type

\* The server's answer to a REPLACE of one record-set: the record-set of that
\* name and type is replaced where it stands, or added at the end.
ReplaceRRSet(rrsets, rr) ==
  IF \E i \in 1..Len(rrsets) : SameKey(rrsets[i], rr)
  THEN [i \in 1..Len(rrsets) |-> IF SameKey(rrsets[i], rr) THEN rr ELSE rrsets[i]]
  ELSE Append(rrsets, rr)

\* The server's answer to a DELETE of one record-set
DeleteRRSet(rrsets, rr) == SelectSeq(rrsets, LAMBDA x : ~SameKey(x, rr))

WithRRSets(rz, zone_id, rrsets) ==
  [i \in 1..Len(rz) |->
     IF rz[i].name = zone_id
     THEN [rz[i] EXCEPT !.details = [k \in DOMAIN rz[i].details |->
                                        IF k = "rrsets" THEN rrsets ELSE rz[i].details[k]]]
     ELSE rz[i]]

\* zone.create_records([rrset]) on the zone object get_zone returned
ZoneCreateRecords(s, zone, rr, call, rz) ==
  IF call = "ok"
  THEN [raised |-> FALSE, exc |-> NoExc,
        rz |-> WithRRSets(rz, zone.name, ReplaceRRSet(zone.details.rrsets, rr)),
        calls |-> <<Wire("create_records", s, [zone |-> zone.name, rrset |-> rr], TRUE)>>]
  ELSE [raised |-> TRUE, exc |-> TransportError, rz |-> rz,
        calls |-> <<Wire("create_records", s, [zone |-> zone.name, rrset |-> rr], FALSE)>>]

\* zone.delete_records([rrset])
ZoneDeleteRecords(s, zone, rr, call, rz) ==
  IF call = "ok"
  THEN [raised |-> FALSE, exc |-> NoExc,
        rz |-> WithRRSets(rz, zone.name, DeleteRRSet(zone.details.rrsets, rr)),
        calls |-> <<Wire("delete_records", s, [zone |-> zone.name, rrset |-> rr], TRUE)>>]
  ELSE [raised |-> TRUE, exc |-> TransportError, rz |-> rz,
        calls |-> <<Wire("delete_records", s, [zone |-> zone.name, rrset |-> rr], FALSE)>>]

\* ------------------------------------------------ create_zone, delete_zone

\* date.today().strftime("%Y%m%d00")
TodayYmd == 20261101
SoaSerial == DecStr(TodayYmd) \o <<"0", "0">>
SoaTtl == 86400

\* f"ns1.{name} hostmaster.{name} {serial} 28800 7200 604800 86400"
SoaContent(name) ==
  <<"n", "s", "1", ".">> \o name \o <<" ", "h", "o", "s", "t", "m", "a", "s", "t", "e", "r", ".">> \o name \o <<" ">> \o SoaSerial \o <<" ", "2", "8", "8", "0", "0", " ", "7", "2", "0", "0", " ", "6", "0", "4", "8", "0", "0", " ", "8", "6", "4", "0", "0">>

SoaRRSet(name) == RRSet(name, sSOA, <<<<SoaContent(name), FALSE>>>>, SoaTtl)

sNS == <<"N", "S">>

RECURSIVE Pairs(_, _)
Pairs(contents, disabled) ==
  IF contents = <<>> THEN <<>>
  ELSE <<<<Head(contents), disabled>>>> \o Pairs(Tail(contents), disabled)

\* The zone the server holds after a create_zone request: the record-sets
\* sent, and an NS record-set of the nameservers sent if there are any.
NewRemoteZone(name, kind, rrsets, nameservers) ==
  [name |-> name,
   details |-> [kind |-> kind, serial |-> SoaSerial,
                rrsets |-> rrsets \o
                  (IF nameservers = <<>> THEN <<>>
                   ELSE <<RRSet(name, sNS, Pairs(nameservers, FALSE), RRSetDefaultTtl)>>)]]

\* create_zone whose except clause does not raise again: a refused request
\* returns like an accepted one
CreateZoneSwallowingErrors(s, m, name, kind, nameservers, net, rz) ==
  LET c == EnsureConnected(s, m, net)
      arg == [name |-> name, kind |-> kind, rrsets |-> <<SoaRRSet(name)>>,
              nameservers |-> nameservers]
      accepted == net.call = "ok" /\ FindZone(rz, name) = NoneValue
  IN  IF c.raised THEN [c EXCEPT !.value = rz]
      ELSE IF accepted
      THEN Returned(c.m, Append(rz, NewRemoteZone(name, kind, arg.rrsets, nameservers)),
                    c.calls \o <<Wire("create_zone", s, arg, TRUE)>>)
      ELSE Returned(c.m, rz, c.calls \o <<Wire("create_zone", s, arg, FALSE)>>)

\* create_zone(name, kind, nameservers): the server refuses a zone it already has
CreateZone(s, m, name, kind, nameservers, net, rz) ==
  LET c == EnsureConnected(s, m, net)
      arg == [name |-> name, kind |-> kind, rrsets |-> <<SoaRRSet(name)>>,
              nameservers |-> nameservers]
      accepted == net.call = "ok" /\ FindZone(rz, name) = NoneValue
  IN  IF c.raised THEN [c EXCEPT !.value = rz]
      ELSE IF accepted
      THEN Returned(c.m, Append(rz, NewRemoteZone(name, kind, arg.rrsets, nameservers)),
                    c.calls \o <<Wire("create_zone", s, arg, TRUE)>>)
      ELSE [Raised(c.m, DomainError(<<"Failed to create zone: ">>, TransportError),
                   c.calls \o <<Wire("create_zone", s, arg, FALSE)>>)
              EXCEPT !.value = rz]

\* delete_zone(zone_id); value is the server's zone list afterwards
DeleteZone(s, m, zone_id, net, rz) ==
  LET c == EnsureConnected(s, m, net)
      accepted == net.call = "ok" /\ FindZone(rz, zone_id) # NoneValue
  IN  IF c.raised THEN [c EXCEPT !.value = rz]
      ELSE IF accepted
      THEN Returned(c.m, SelectSeq(rz, LAMBDA z : z.name # zone_id),
                    c.calls \o <<Wire("delete_zone", s, zone_id, TRUE)>>)
      ELSE [Raised(c.m, DomainError(<<"Failed to delete zone: ">>, TransportError),
                   c.calls \o <<Wire("delete_zone", s, zone_id, FALSE)>>)
              EXCEPT !.value = rz]

\* ------------------------------------------------------------------- state

VARIABLES
  phase,          \* which screen is on top: "start", "noservers", "zones_mount",
                  \* "zones", "details_mount", "details", "crashed"
  modal,          \* the modal dialog on top of the screen, [kind |-> "none"] without
  managers,       \* PowerDNSTUI.managers: the connected servers, by configured index
  mgr,            \* per configured server, its PDNSManager's connected and api_server
  remote,         \* per configured server, the zones the server holds
  all_zones,      \* ZonesScreen.all_zones
  zones_table,    \* the rows of #zones-table
  zone_search,    \* the value of #zone-search
  det,            \* ZoneDetailsScreen's manager, zone_id and zone_name
  all_records,    \* ZoneDetailsScreen.all_records
  records_table,  \* the rows of #records-table
  record_search,  \* the value of #record-search
  last,           \* the handler that ran last, with its inputs
  calls,          \* the remote calls the last handler issued, in order
  notes,          \* the notifications the last handler raised, in order
  mutations_left, \* how many more changes the servers accept in this behaviour
  failures_left   \* how many more remote calls fail in this behaviour

vars == <<phase, modal, managers, mgr, remote, all_zones, zones_table, zone_search,
          det, all_records, records_table, record_search, last, calls, notes,
          mutations_left, failures_left>>

zone_vars == <<all_zones, zones_table, zone_search>>
server_vars == <<remote, mutations_left>>
record_vars == <<det, all_records, records_table, record_search>>

RECURSIVE FailedIn(_)
FailedIn(cs) ==
  IF cs = <<>> THEN 0 ELSE (IF Head(cs).ok THEN 0 ELSE 1) + FailedIn(Tail(cs))

\* The last conjunct of every handler: the step stays within the bound on
\* failed remote calls.
WithinFailures ==
  /\ failures_left' = failures_left - FailedIn(calls')
  /\ failures_left' >= 0

NoModal == [kind |-> "none"]
NoDetails == [open |-> FALSE]

Notify(message, severity) == [message |-> message, severity |-> severity]

\* ------------------------------------------------------ the servers' content

zEx == <<"e", "x", ".">>
zAb == <<"A", "b", ".">>
sWwwEx == <<"w", "w", "w", ".", "e", "x", ".">>
c1 == <<"1", ".", "1">>
c2 == <<"2", ".", "2">>
c3 == <<"H", "i">>

ZoneEx ==
  [name |-> zEx,
   details |-> [kind |-> sMaster, serial |-> <<"7">>, notified_serial |-> <<"7">>,
                rrsets |-> <<RRSet(zEx, sSOA, <<<<SoaContent(zEx), FALSE>>>>, SoaTtl),
                             RRSet(sWwwEx, sA, <<<<c1, FALSE>>, <<c2, TRUE>>>>, 300)>>]]

\* a zone whose details lack kind, serial and notified_serial
ZoneAb ==
  [name |-> zAb,
   details |-> [rrsets |-> <<RRSet(zAb, sTXT, <<<<c3, FALSE>>>>, 60)>>]]

InitRemote == [s \in ServerIds |-> IF s % 2 = 1 THEN <<ZoneEx>> ELSE <<ZoneAb>>]

\* The app before on_mount, the servers holding rem, with l as the record of
\* what ran last
InitWith(rem, mutations, failures, l) ==
  /\ phase = "start"
  /\ modal = NoModal
  /\ managers = <<>>
  /\ mgr = [s \in ServerIds |-> NewManager]
  /\ remote = rem
  /\ all_zones = <<>>
  /\ zones_table = <<>>
  /\ zone_search = <<>>
  /\ det = NoDetails
  /\ all_records = <<>>
  /\ records_table = <<>>
  /\ record_search = <<>>
  /\ last = l
  /\ calls = <<>>
  /\ notes = <<>>
  /\ mutations_left = mutations
  /\ failures_left = failures

InitState(rem, mutations, failures) == InitWith(rem, mutations, failures, [op |-> "init"])

Init == InitState(InitRemote, MaxMutations, MaxFailures)

\* The answers the network can give one operation of manager m
NetsFor(m) == IF m.connected THEN {n \in Nets : n.conn = "ok"} ELSE Nets

\* --------------------------------------------------- PowerDNSTUI.on_mount

\* The loop over config.servers leaving at the first connect that fails
RECURSIVE ConnectAllUntilFailure(_, _, _)
ConnectAllUntilFailure(i, outs, acc) ==
  IF i > NumServers THEN acc
  ELSE LET c == Connect(i, NewManager, outs[i])
       IN  IF c.raised
           THEN [acc EXCEPT
                   !.calls = @ \o c.calls,
                   !.notes = Append(@, Notify(<<"Failed to connect to ",
                                                ConfigServers[i].name, c.exc>>, "error"))]
           ELSE ConnectAllUntilFailure(i + 1, outs,
                  [acc EXCEPT
                     !.managers = Append(@, i),
                     !.mgr[i] = c.m,
                     !.calls = @ \o c.calls,
                     !.notes = Append(@, Notify(<<"Connected to ",
                                                  ConfigServers[i].name>>, "information"))])

\* The loop over config.servers from server i on; outs[i] is the answer to
\* server i's connect.
RECURSIVE ConnectAll(_, _, _)
ConnectAll(i, outs, acc) ==
  IF i > NumServers THEN acc
  ELSE LET c == Connect(i, NewManager, outs[i])
       IN  ConnectAll(i + 1, outs,
             IF c.raised
             THEN [acc EXCEPT
                     !.calls = @ \o c.calls,
                     !.notes = Append(@, Notify(<<"Failed to connect to ",
                                                  ConfigServers[i].name, c.exc>>, "error"))]
             ELSE [acc EXCEPT
                     !.managers = Append(@, i),
                     !.mgr[i] = c.m,
                     !.calls = @ \o c.calls,
                     !.notes = Append(@, Notify(<<"Connected to ",
                                                  ConfigServers[i].name>>, "information"))])

AppOnMount(outs) ==
  /\ phase = "start"
  /\ LET r == ConnectAll(1, outs, [managers |-> <<>>, mgr |-> mgr, calls |-> <<>>,
                                   notes |-> <<>>])
     IN  /\ managers' = r.managers
         /\ mgr' = r.mgr
         /\ calls' = r.calls
         /\ IF r.managers = <<>>
            THEN /\ notes' = Append(r.notes,
                        Notify(<<"No servers connected. Please check your configuration.">>,
                               "error"))
                 /\ phase' = "noservers"
            ELSE /\ notes' = r.notes
                 /\ phase' = "zones_mount"
  /\ last' = [op |-> "app_on_mount"]
  /\ UNCHANGED <<modal, server_vars, zone_vars, record_vars>>
  /\ WithinFailures

\* ------------------------------------------------------------ ZonesScreen

ZoneData(s, zone) ==
  [manager |-> s, id |-> zone.name, name |-> zone.name,
   kind |-> DictGet(zone.details, "kind", sNA),
   serial |-> DictGet(zone.details, "serial", sNA),
   records |-> Len(DictGet(zone.details, "rrsets", <<>>)),
   notified_serial |-> DictGet(zone.details, "notified_serial", sNA)]

\* A serial is held by its decimal digits, so str() of it is the serial itself.
ZoneRow(zd) ==
  <<ManagerName(zd.manager), Fqdn(zd.manager), zd.name, zd.kind,
    zd.serial, DecStr(zd.records), zd.notified_serial>>

RECURSIVE ZoneDataOf(_, _)
ZoneDataOf(s, zones) ==
  IF zones = <<>> THEN <<>> ELSE <<ZoneData(s, Head(zones))>> \o ZoneDataOf(s, Tail(zones))

RECURSIVE RowsOf(_)
RowsOf(zds) == IF zds = <<>> THEN <<>> ELSE <<ZoneRow(Head(zds))>> \o RowsOf(Tail(zds))

\* The loop of load_zones with the try around the loop: the first failure ends it
RECURSIVE LoadZonesLoopUntilFailure(_, _, _, _, _)
LoadZonesLoopUntilFailure(ms, i, nets, rem, acc) ==
  IF i > Len(ms) THEN acc
  ELSE LET s == ms[i]
           r == GetZones(s, acc.mgr[s], nets[i], rem[s])
       IN  IF r.raised
           THEN [acc EXCEPT
                   !.mgr[s] = r.m,
                   !.calls = @ \o r.calls,
                   !.notes = Append(@, Notify(<<"Error loading zones from ",
                                                ManagerName(s), r.exc>>, "error"))]
           ELSE LoadZonesLoopUntilFailure(ms, i + 1, nets, rem,
                  [acc EXCEPT
                     !.mgr[s] = r.m,
                     !.calls = @ \o r.calls,
                     !.all_zones = @ \o ZoneDataOf(s, r.value),
                     !.table = @ \o RowsOf(ZoneDataOf(s, r.value))])

\* The loop of load_zones over self.managers from position i on; nets[i] is
\* the network's answer to the i-th manager.
RECURSIVE LoadZonesLoop(_, _, _, _, _)
LoadZonesLoop(ms, i, nets, rem, acc) ==
  IF i > Len(ms) THEN acc
  ELSE LET s == ms[i]
           r == GetZones(s, acc.mgr[s], nets[i], rem[s])
       IN  LoadZonesLoop(ms, i + 1, nets, rem,
             IF r.raised
             THEN [acc EXCEPT
                     !.mgr[s] = r.m,
                     !.calls = @ \o r.calls,
                     !.notes = Append(@, Notify(<<"Error loading zones from ",
                                                  ManagerName(s), r.exc>>, "error"))]
             ELSE [acc EXCEPT
                     !.mgr[s] = r.m,
                     !.calls = @ \o r.calls,
                     !.all_zones = @ \o ZoneDataOf(s, r.value),
                     !.table = @ \o RowsOf(ZoneDataOf(s, r.value))])

\* load_zones(): the table and all_zones are emptied, then filled again
LoadZones(ms, mg, nets, rem) ==
  LET r == LoadZonesLoop(ms, 1, nets, rem,
             [mgr |-> mg, calls |-> <<>>, notes |-> <<>>, all_zones |-> <<>>,
              table |-> <<>>])
  IN  [r EXCEPT !.notes = Append(@, Notify(<<"Loaded zones", Len(r.all_zones), Len(ms)>>,
                                           "information"))]

ZoneMatches(zone, search_lower) ==
  \/ Contains(search_lower, Lower(zone.name))
  \/ Contains(search_lower, Lower(zone.kind))
  \/ Contains(search_lower, Lower(ManagerName(zone.manager)))
  \/ Contains(search_lower, Lower(Fqdn(zone.manager)))

\* filter_zones(search_term): the rows of the table afterwards
RECURSIVE FilterZonesLoop(_, _)
FilterZonesLoop(zones, search_lower) ==
  IF zones = <<>> THEN <<>>
  ELSE (IF ZoneMatches(Head(zones), search_lower) THEN <<ZoneRow(Head(zones))>> ELSE <<>>)
       \o FilterZonesLoop(Tail(zones), search_lower)

\* filter_zones comparing the term as typed
FilterZonesAsTyped(zones, search_term) == FilterZonesLoop(zones, search_term)

FilterZones(zones, search_term) == FilterZonesLoop(zones, Lower(search_term))

\* The answers the network can give one load_zones
LoadNets(ms, mg) ==
  {nets \in [1..Len(ms) -> Nets] : \A i \in 1..Len(ms) : nets[i] \in NetsFor(mg[ms[i]])}

\* ZonesScreen.on_mount
ZonesScreenOnMount(nets) ==
  /\ phase = "zones_mount"
  /\ LET r == LoadZones(managers, mgr, nets, remote)
     IN  /\ all_zones' = r.all_zones
         /\ zones_table' = r.table
         /\ mgr' = r.mgr
         /\ calls' = r.calls
         /\ notes' = r.notes
  /\ phase' = "zones"
  /\ last' = [op |-> "load_zones", via |-> "on_mount"]
  /\ UNCHANGED <<modal, managers, server_vars, zone_search, record_vars>>
  /\ WithinFailures

\* action_refresh
ZonesActionRefresh(nets) ==
  /\ phase = "zones" /\ modal = NoModal
  /\ LET r == LoadZones(managers, mgr, nets, remote)
     IN  /\ all_zones' = r.all_zones
         /\ zones_table' = r.table
         /\ mgr' = r.mgr
         /\ calls' = r.calls
         /\ notes' = r.notes
  /\ last' = [op |-> "load_zones", via |-> "refresh"]
  /\ UNCHANGED <<phase, modal, managers, server_vars, zone_search, record_vars>>
  /\ WithinFailures

SearchTerms == {<<>>, <<"A", "B">>}

\* on_input_changed keeping the matching zones as the loaded ones
ZoneSearchChangedInPlace(term) ==
  /\ phase = "zones" /\ modal = NoModal
  /\ term # zone_search
  /\ zone_search' = term
  /\ zones_table' = FilterZones(all_zones, term)
  /\ all_zones' = SelectSeq(all_zones, LAMBDA z : ZoneMatches(z, Lower(term)))
  /\ last' = [op |-> "filter_zones", term |-> term]
  /\ calls' = <<>>
  /\ notes' = <<>>
  /\ UNCHANGED <<phase, modal, managers, mgr, server_vars, record_vars>>
  /\ WithinFailures

\* on_input_changed of #zone-search
ZoneSearchChanged(term) ==
  /\ phase = "zones" /\ modal = NoModal
  /\ term # zone_search
  /\ zone_search' = term
  /\ zones_table' = FilterZones(all_zones, term)
  /\ last' = [op |-> "filter_zones", term |-> term]
  /\ calls' = <<>>
  /\ notes' = <<>>
  /\ UNCHANGED <<phase, modal, managers, mgr, server_vars, all_zones, record_vars>>
  /\ WithinFailures

\* Confirmed with either button dismissing with True
ConfirmedByAnyButton(button) == TRUE

\* ConfirmModal.on_button_pressed: dismiss(event.button.id == "yes-btn")
Confirmed(button) == button = "yes-btn"

\* The rows the cursor of a table can be on: row 0 of an empty table
CursorRows(table) == 0..(IF Len(table) = 0 THEN 0 ELSE Len(table) - 1)

Crash(op) ==
  /\ phase' = "crashed"
  /\ modal' = NoModal
  /\ last' = op
  /\ calls' = <<>>
  /\ notes' = <<>>
  /\ UNCHANGED <<managers, mgr, server_vars, zone_vars, record_vars>>

\* action_create_zone
ActionCreateZone ==
  /\ phase = "zones" /\ modal = NoModal
  /\ modal' = [kind |-> "create_zone"]
  /\ last' = [op |-> "action_create_zone"]
  /\ calls' = <<>>
  /\ notes' = <<>>
  /\ UNCHANGED <<phase, managers, mgr, server_vars, zone_vars, record_vars>>
  /\ WithinFailures

\* [ns.strip() for ns in ns_input.split(",") if ns.strip()]
RECURSIVE StripAll(_)
StripAll(parts) ==
  IF parts = <<>> THEN <<>>
  ELSE (IF Strip(Head(parts)) # <<>> THEN <<Strip(Head(parts))>> ELSE <<>>)
       \o StripAll(Tail(parts))

Nameservers(ns_input) == StripAll(Split(ns_input, ","))

\* CreateZoneModal.on_button_pressed up to dismiss: what the form hands back.
\* sel is the value of #server-select: Select.BLANK or str(i) for a position i.
CreateZoneForm(button, name_input, kind, ns_input, sel, nmanagers) ==
  IF button # "create-btn" THEN [outcome |-> "dismiss", result |-> NoneValue]
  ELSE LET name == Strip(name_input)
       IN  IF name = <<>>
           THEN [outcome |-> "rejected",
                 notes |-> <<Notify(<<"Zone name is required">>, "error")>>]
           ELSE IF nmanagers > 1 /\ ~ParseInt(sel).ok
           THEN [outcome |-> "raise"]
           ELSE [outcome |-> "dismiss",
                 result |-> [name |-> name, kind |-> kind,
                             nameservers |-> Nameservers(Strip(ns_input)),
                             server_idx |-> IF nmanagers > 1 THEN ParseInt(sel).value ELSE 0]]

\* on_create_zone_result(result) for a result that is not None
OnCreateZoneResultWith(result, net, nets) ==
  LET s == managers[result.server_idx + 1]
      r == CreateZone(s, mgr[s], result.name, result.kind, result.nameservers, net,
                      remote[s])
      rem == [remote EXCEPT ![s] = r.value]
      l == LoadZones(managers, [mgr EXCEPT ![s] = r.m], nets, rem)
  IN  IF r.raised
      THEN /\ notes' = <<Notify(<<"Error creating zone: ", r.exc>>, "error")>>
           /\ calls' = r.calls
           /\ mgr' = [mgr EXCEPT ![s] = r.m]
           /\ UNCHANGED <<server_vars, zone_vars>>
      ELSE /\ notes' = <<Notify(<<"Zone created successfully", result.name,
                                  ManagerName(s)>>, "information")>> \o l.notes
           /\ calls' = r.calls \o l.calls
           /\ mgr' = l.mgr
           /\ mutations_left > 0
           /\ remote' = rem
           /\ mutations_left' = mutations_left - 1
           /\ all_zones' = l.all_zones
           /\ zones_table' = l.table
           /\ UNCHANGED zone_search

\* on_create_zone_result under every answer the network can give
OnCreateZoneResult(result) ==
  \E net \in NetsFor(mgr[managers[result.server_idx + 1]]),
     nets \in LoadNets(managers, mgr) : OnCreateZoneResultWith(result, net, nets)

\* A button of CreateZoneModal, and the callback its dismiss runs
CreateZoneButton(button, name_input, kind, ns_input, sel) ==
  /\ phase = "zones" /\ modal.kind = "create_zone"
  /\ LET f == CreateZoneForm(button, name_input, kind, ns_input, sel, Len(managers))
         op == [op |-> "create_zone_button", button |-> button,
                inputs |-> [name |-> name_input, kind |-> kind, ns |-> ns_input,
                            sel |-> sel]]
     IN  CASE f.outcome = "rejected" ->
                /\ notes' = f.notes
                /\ calls' = <<>>
                /\ last' = op
                /\ UNCHANGED <<phase, modal, managers, mgr, server_vars, zone_vars, record_vars>>
           [] f.outcome = "raise" -> Crash(op)
           [] f.outcome = "dismiss" /\ f.result = NoneValue ->
                /\ modal' = NoModal
                /\ notes' = <<>>
                /\ calls' = <<>>
                /\ last' = op
                /\ UNCHANGED <<phase, managers, mgr, server_vars, zone_vars, record_vars>>
           [] OTHER ->
                /\ Len(remote[managers[f.result.server_idx + 1]]) < MaxZones
                /\ modal' = NoModal
                /\ last' = op @@ [result |-> f.result]
                /\ OnCreateZoneResult(f.result)
                /\ UNCHANGED <<phase, managers, record_vars>>
  /\ WithinFailures

\* escape in a form: action_cancel dismisses with None, the callback does nothing
ModalCancel ==
  /\ modal.kind \in {"create_zone", "create_record", "edit_record"}
  /\ modal' = NoModal
  /\ last' = [op |-> "action_cancel", modal |-> modal.kind]
  /\ calls' = <<>>
  /\ notes' = <<>>
  /\ UNCHANGED <<phase, managers, mgr, server_vars, zone_vars, record_vars>>
  /\ WithinFailures

\* action_delete_zone with the table's cursor on `row`
ActionDeleteZone(row) ==
  /\ phase = "zones" /\ modal = NoModal
  /\ IF row < 0
     THEN /\ notes' = <<Notify(<<"Please select a zone to delete">>, "warning")>>
          /\ calls' = <<>>
          /\ last' = [op |-> "action_delete_zone", row |-> row]
          /\ UNCHANGED <<phase, modal, managers, mgr, server_vars, zone_vars, record_vars>>
     ELSE IF row + 1 > Len(all_zones)
     THEN Crash([op |-> "action_delete_zone", row |-> row])
     ELSE /\ modal' = [kind |-> "confirm", what |-> "zone", zone |-> all_zones[row + 1],
                       message |-> <<"Delete zone ", all_zones[row + 1].name>>]
          /\ notes' = <<>>
          /\ calls' = <<>>
          /\ last' = [op |-> "action_delete_zone", row |-> row]
          /\ UNCHANGED <<phase, managers, mgr, server_vars, zone_vars, record_vars>>
  /\ WithinFailures

\* on_delete_zone_result(confirmed, zone)
OnDeleteZoneResultWith(confirmed, zone, net, nets) ==
  IF ~confirmed
  THEN /\ notes' = <<>>
       /\ calls' = <<>>
       /\ UNCHANGED <<mgr, server_vars, zone_vars>>
  ELSE LET s == zone.manager
           r == DeleteZone(s, mgr[s], zone.id, net, remote[s])
           rem == [remote EXCEPT ![s] = r.value]
           l == LoadZones(managers, [mgr EXCEPT ![s] = r.m], nets, rem)
       IN  IF r.raised
           THEN /\ notes' = <<Notify(<<"Error deleting zone: ", r.exc>>, "error")>>
                /\ calls' = r.calls
                /\ mgr' = [mgr EXCEPT ![s] = r.m]
                /\ UNCHANGED <<server_vars, zone_vars>>
           ELSE /\ notes' = <<Notify(<<"Zone deleted successfully", zone.name>>,
                                     "information")>> \o l.notes
                /\ calls' = r.calls \o l.calls
                /\ mgr' = l.mgr
                /\ mutations_left > 0
                /\ remote' = rem
                /\ mutations_left' = mutations_left - 1
                /\ all_zones' = l.all_zones
                /\ zones_table' = l.table
                /\ UNCHANGED zone_search

OnDeleteZoneResult(confirmed, zone) ==
  \E net \in NetsFor(mgr[zone.manager]), nets \in LoadNets(managers, mgr) :
     OnDeleteZoneResultWith(confirmed, zone, net, nets)

\* ConfirmModal.on_button_pressed over a zone, and the callback its dismiss runs
ConfirmZoneButton(button) ==
  /\ phase = "zones" /\ modal.kind = "confirm" /\ modal.what = "zone"
  /\ modal' = NoModal
  /\ last' = [op |-> "confirm_button", button |-> button]
  /\ OnDeleteZoneResult(Confirmed(button), modal.zone)
  /\ UNCHANGED <<phase, managers, record_vars>>
  /\ WithinFailures

\* on_data_table_row_selected(event): Enter on row `row` of the zone table
RowSelected(row) ==
  /\ phase = "zones" /\ modal = NoModal
  /\ row < Len(zones_table)
  /\ IF row + 1 > Len(all_zones)
     THEN Crash([op |-> "row_selected", row |-> row])
     ELSE /\ phase' = "details_mount"
          /\ det' = [open |-> TRUE, manager |-> all_zones[row + 1].manager,
                     zone_id |-> all_zones[row + 1].id,
                     zone_name |-> all_zones[row + 1].name]
          /\ all_records' = <<>>
          /\ records_table' = <<>>
          /\ record_search' = <<>>
          /\ last' = [op |-> "row_selected", row |-> row]
          /\ calls' = <<>>
          /\ notes' = <<>>
          /\ UNCHANGED <<modal, managers, mgr, server_vars, zone_vars>>
  /\ WithinFailures

\* ------------------------------------------------------ ZoneDetailsScreen

MaxContentShown == 50

\* content[:50] + "..." if len(content) > 50 else content
ShownContent(content) ==
  IF Len(content) > MaxContentShown
  THEN SubSeq(content, 1, MaxContentShown) \o <<".", ".", ".">>
  ELSE content

YesNo(disabled) == IF disabled THEN <<"Y", "e", "s">> ELSE <<"N", "o">>

\* The dict load_records appends for one record of one record-set
RecordRow(rrset, record) ==
  [name |-> DictGet(rrset, "name", <<>>),
   type |-> DictGet(rrset, "type", <<>>),
   content |-> DictGet(record, "content", <<>>),
   ttl |-> DictGet(rrset, "ttl", RRSetDefaultTtl),
   disabled |-> DictGet(record, "disabled", FALSE),
   rrset |-> rrset]

\* The table row load_records adds beside it
LoadedRow(rrset, record) ==
  <<DictGet(rrset, "name", <<>>), DictGet(rrset, "type", <<>>),
    ShownContent(DictGet(record, "content", <<>>)),
    IF "ttl" \in DOMAIN rrset THEN DecStr(rrset.ttl) ELSE <<>>,
    YesNo(DictGet(record, "disabled", FALSE))>>

\* The table row filter_records adds for a record of all_records
FilteredRow(record) ==
  <<record.name, record.type, ShownContent(record.content), DecStr(record.ttl),
    YesNo(record.disabled)>>

\* The inner loop of load_records leaving after the first record
FlattenFirstRecord(rrset, records) ==
  IF records = <<>> THEN <<>> ELSE <<RecordRow(rrset, Head(records))>>

\* The two nested loops of load_records: every record of every record-set
RECURSIVE FlattenRecords(_, _)
FlattenRecords(rrset, records) ==
  IF records = <<>> THEN <<>>
  ELSE <<RecordRow(rrset, Head(records))>> \o FlattenRecords(rrset, Tail(records))

RECURSIVE FlattenRRSets(_)
FlattenRRSets(rrsets) ==
  IF rrsets = <<>> THEN <<>>
  ELSE FlattenRecords(Head(rrsets), DictGet(Head(rrsets), "records", <<>>))
       \o FlattenRRSets(Tail(rrsets))

RECURSIVE LoadedRows(_)
LoadedRows(records) ==
  IF records = <<>> THEN <<>>
  ELSE <<LoadedRow(Head(records).rrset,
                   [content |-> Head(records).content, disabled |-> Head(records).disabled])>>
       \o LoadedRows(Tail(records))

\* load_records with table.clear() and all_records = [] ahead of get_zone
LoadRecordsClearingFirst(d, m, net, rz, records, table) ==
  LET r == GetZone(d.manager, m, d.zone_id, net, rz)
  IN  IF r.raised
      THEN [mgr |-> r.m, calls |-> r.calls, all_records |-> <<>>, table |-> <<>>,
            notes |-> <<Notify(<<"Error loading records: ", r.exc>>, "error")>>]
      ELSE IF r.value = NoneValue
      THEN [mgr |-> r.m, calls |-> r.calls, all_records |-> <<>>, table |-> <<>>,
            notes |-> <<Notify(<<"Error loading records: ", "AttributeError">>, "error")>>]
      ELSE LET rows == FlattenRRSets(DictGet(r.value.details, "rrsets", <<>>))
           IN  [mgr |-> r.m, calls |-> r.calls, all_records |-> rows,
                table |-> LoadedRows(rows),
                notes |-> <<Notify(<<"Loaded records", Len(rows)>>, "information")>>]

\* load_records without all_records = []: the records are appended to those held
LoadRecordsAppending(d, m, net, rz, records, table) ==
  LET r == GetZone(d.manager, m, d.zone_id, net, rz)
  IN  IF r.raised
      THEN [mgr |-> r.m, calls |-> r.calls, all_records |-> records, table |-> table,
            notes |-> <<Notify(<<"Error loading records: ", r.exc>>, "error")>>]
      ELSE IF r.value = NoneValue
      THEN [mgr |-> r.m, calls |-> r.calls, all_records |-> records, table |-> <<>>,
            notes |-> <<Notify(<<"Error loading records: ", "AttributeError">>, "error")>>]
      ELSE LET rows == records \o FlattenRRSets(DictGet(r.value.details, "rrsets", <<>>))
           IN  [mgr |-> r.m, calls |-> r.calls, all_records |-> rows,
                table |-> LoadedRows(rows),
                notes |-> <<Notify(<<"Loaded records", Len(rows)>>, "information")>>]

\* load_records() of the screen d, given what it holds (records, table)
LoadRecords(d, m, net, rz, records, table) ==
  LET r == GetZone(d.manager, m, d.zone_id, net, rz)
  IN  IF r.raised
      THEN [mgr |-> r.m, calls |-> r.calls, all_records |-> records, table |-> table,
            notes |-> <<Notify(<<"Error loading records: ", r.exc>>, "error")>>]
      ELSE IF r.value = NoneValue
      THEN \* table.clear() and all_records = [] have run when None.details raises
           [mgr |-> r.m, calls |-> r.calls, all_records |-> <<>>, table |-> <<>>,
            notes |-> <<Notify(<<"Error loading records: ", "AttributeError">>, "error")>>]
      ELSE LET rows == FlattenRRSets(DictGet(r.value.details, "rrsets", <<>>))
           IN  [mgr |-> r.m, calls |-> r.calls, all_records |-> rows,
                table |-> LoadedRows(rows),
                notes |-> <<Notify(<<"Loaded records", Len(rows)>>, "information")>>]

RecordMatches(record, search_lower) ==
  \/ Contains(search_lower, Lower(record.name))
  \/ Contains(search_lower, Lower(record.type))
  \/ Contains(search_lower, Lower(record.content))

\* filter_records(search_term): the rows of the table afterwards
RECURSIVE FilterRecordsLoop(_, _)
FilterRecordsLoop(records, search_lower) ==
  IF records = <<>> THEN <<>>
  ELSE (IF RecordMatches(Head(records), search_lower)
        THEN <<FilteredRow(Head(records))>> ELSE <<>>)
       \o FilterRecordsLoop(Tail(records), search_lower)

FilterRecords(records, search_term) == FilterRecordsLoop(records, Lower(search_term))

ApplyLoadRecords(l) ==
  /\ all_records' = l.all_records
  /\ records_table' = l.table
  /\ mgr' = [mgr EXCEPT ![det.manager] = l.mgr]
  /\ calls' = l.calls
  /\ notes' = l.notes

\* ZoneDetailsScreen.on_mount
DetailsOnMount ==
  /\ phase = "details_mount"
  /\ \E net \in NetsFor(mgr[det.manager]) :
       ApplyLoadRecords(LoadRecords(det, mgr[det.manager], net, remote[det.manager],
                                    all_records, records_table))
  /\ phase' = "details"
  /\ last' = [op |-> "load_records", via |-> "on_mount"]
  /\ UNCHANGED <<modal, managers, server_vars, zone_vars, det, record_search>>
  /\ WithinFailures

\* action_refresh
DetailsActionRefresh ==
  /\ phase = "details" /\ modal = NoModal
  /\ \E net \in NetsFor(mgr[det.manager]) :
       ApplyLoadRecords(LoadRecords(det, mgr[det.manager], net, remote[det.manager],
                                    all_records, records_table))
  /\ last' = [op |-> "load_records", via |-> "refresh"]
  /\ UNCHANGED <<phase, modal, managers, server_vars, zone_vars, det, record_search>>
  /\ WithinFailures

\* on_input_changed of #record-search
RecordSearchChanged(term) ==
  /\ phase = "details" /\ modal = NoModal
  /\ term # record_search
  /\ record_search' = term
  /\ records_table' = FilterRecords(all_records, term)
  /\ last' = [op |-> "filter_records", term |-> term]
  /\ calls' = <<>>
  /\ notes' = <<>>
  /\ UNCHANGED <<phase, modal, managers, mgr, server_vars, zone_vars, det, all_records>>
  /\ WithinFailures

\* action_back: the screen is popped and the zone screen loads again
ActionBack(nets) ==
  /\ phase = "details" /\ modal = NoModal
  /\ LET r == LoadZones(managers, mgr, nets, remote)
     IN  /\ all_zones' = r.all_zones
         /\ zones_table' = r.table
         /\ mgr' = r.mgr
         /\ calls' = r.calls
         /\ notes' = r.notes
  /\ phase' = "zones"
  /\ det' = NoDetails
  /\ all_records' = <<>>
  /\ records_table' = <<>>
  /\ record_search' = <<>>
  /\ last' = [op |-> "load_zones", via |-> "back"]
  /\ UNCHANGED <<modal, managers, server_vars, zone_search>>
  /\ WithinFailures

\* action_create_record
ActionCreateRecord ==
  /\ phase = "details" /\ modal = NoModal
  /\ modal' = [kind |-> "create_record"]
  /\ last' = [op |-> "action_create_record"]
  /\ calls' = <<>>
  /\ notes' = <<>>
  /\ UNCHANGED <<phase, managers, mgr, server_vars, zone_vars, record_vars>>
  /\ WithinFailures

\* CreateRecordModal.on_button_pressed falling back to the default TTL
CreateRecordFormDefaultTtl(button, name_input, rtype, content_input, ttl_input) ==
  IF button # "create-btn" THEN [outcome |-> "dismiss", result |-> NoneValue]
  ELSE LET name == Strip(name_input)
           content == Strip(content_input)
           ttl == ParseInt(Strip(ttl_input))
       IN  IF name = <<>> \/ content = <<>>
           THEN [outcome |-> "rejected",
                 notes |-> <<Notify(<<"Name and content are required">>, "error")>>]
           ELSE [outcome |-> "dismiss",
                 result |-> [name |-> name, type |-> rtype, content |-> content,
                             ttl |-> IF ttl.ok THEN ttl.value ELSE RRSetDefaultTtl]]

\* CreateRecordModal.on_button_pressed up to dismiss
CreateRecordForm(button, name_input, rtype, content_input, ttl_input) ==
  IF button # "create-btn" THEN [outcome |-> "dismiss", result |-> NoneValue]
  ELSE LET name == Strip(name_input)
           content == Strip(content_input)
           ttl == ParseInt(Strip(ttl_input))
       IN  IF name = <<>> \/ content = <<>>
           THEN [outcome |-> "rejected",
                 notes |-> <<Notify(<<"Name and content are required">>, "error")>>]
           ELSE IF ~ttl.ok
           THEN [outcome |-> "rejected",
                 notes |-> <<Notify(<<"TTL must be a number">>, "error")>>]
           ELSE [outcome |-> "dismiss",
                 result |-> [name |-> name, type |-> rtype, content |-> content,
                             ttl |-> ttl.value]]

\* EditRecordModal.on_button_pressed up to dismiss
EditRecordForm(button, content_input, ttl_input) ==
  IF button # "save-btn" THEN [outcome |-> "dismiss", result |-> NoneValue]
  ELSE LET content == Strip(content_input)
           ttl == ParseInt(Strip(ttl_input))
       IN  IF content = <<>>
           THEN [outcome |-> "rejected",
                 notes |-> <<Notify(<<"Content is required">>, "error")>>]
           ELSE IF ~ttl.ok
           THEN [outcome |-> "rejected",
                 notes |-> <<Notify(<<"TTL must be a number">>, "error")>>]
           ELSE [outcome |-> "dismiss",
                 result |-> [content |-> content, ttl |-> ttl.value]]

\* full_name with `full_name += '.'` outside the if: a dot is always added
FullNameAlwaysDotted(name, zone_name) ==
  (IF name # <<>> THEN name \o sDot \o zone_name ELSE zone_name) \o sDot

\* f"{name}.{zone_name}" if name else zone_name, then a dot if none ends it
FullName(name, zone_name) ==
  LET full_name == IF name # <<>> THEN name \o sDot \o zone_name ELSE zone_name
  IN  IF ~EndsWith(full_name, sDot) THEN full_name \o sDot ELSE full_name

\* The body shared by on_create_record_result, on_edit_record_result and
\* on_delete_record_result: get_zone, the change of one record-set, the
\* notification, load_records; `except` reports whatever was raised.
\* change is "create" (zone.create_records) or "delete" (zone.delete_records).
RecordChange(rr, change, what, n1, call2, n3) ==
  LET s == det.manager
      g == GetZone(s, mgr[s], det.zone_id, n1, remote[s])
      c == IF change = "create"
           THEN ZoneCreateRecords(s, g.value, rr, call2, remote[s])
           ELSE ZoneDeleteRecords(s, g.value, rr, call2, remote[s])
      l == LoadRecords(det, g.m, n3, c.rz, all_records, records_table)
      failed(exc, cs) ==
        /\ notes' = <<Notify(<<"Error ", what, exc>>, "error")>>
        /\ calls' = cs
        /\ mgr' = [mgr EXCEPT ![s] = g.m]
        /\ UNCHANGED <<server_vars, all_records, records_table>>
  IN  IF g.raised THEN failed(g.exc, g.calls)
      ELSE IF g.value = NoneValue THEN failed(<<"AttributeError">>, g.calls)
      ELSE IF c.raised THEN failed(c.exc, g.calls \o c.calls)
      ELSE /\ mutations_left > 0
           /\ Len(FindZone(c.rz, det.zone_id).details.rrsets) <= MaxRRSets
           /\ remote' = [remote EXCEPT ![s] = c.rz]
           /\ mutations_left' = mutations_left - 1
           /\ notes' = <<Notify(<<"Record ", what, " successfully">>, "information")>>
                         \o l.notes
           /\ calls' = g.calls \o c.calls \o l.calls
           /\ mgr' = [mgr EXCEPT ![s] = l.mgr]
           /\ all_records' = l.all_records
           /\ records_table' = l.table

\* The answers the network can give the three calls of one record change;
\* the manager is connected once get_zone has returned.
ChangeNets == {n \in Nets : n.conn = "ok"}

\* The RRSet on_create_record_result builds
CreateRecordRRSet(result, zone_name) ==
  RRSet(FullName(result.name, zone_name), result.type, <<<<result.content, FALSE>>>>,
        result.ttl)

\* The RRSet of an edit built as on_create_record_result builds one: enabled
EditRecordRRSetEnabled(result, record) ==
  RRSet(record.name, record.type, <<<<result.content, FALSE>>>>, result.ttl)

\* The RRSet on_edit_record_result builds
EditRecordRRSet(result, record) ==
  RRSet(record.name, record.type, <<<<result.content, record.disabled>>>>, result.ttl)

\* The RRSet of a delete carrying the record that was selected
DeleteRecordRRSetOfRecord(record) ==
  RRSet(record.name, record.type, <<<<record.content, record.disabled>>>>, RRSetDefaultTtl)

\* The RRSet on_delete_record_result builds
DeleteRecordRRSet(record) == RRSet(record.name, record.type, <<>>, RRSetDefaultTtl)

\* on_create_record_result(result) for a result that is not None
OnCreateRecordResult(result) ==
  \E n1 \in NetsFor(mgr[det.manager]), call2 \in CallOutcomes, n3 \in ChangeNets :
     RecordChange(CreateRecordRRSet(result, det.zone_name), "create", "created",
                  n1, call2, n3)

\* on_edit_record_result(result, record) for a result that is not None
OnEditRecordResult(result, record) ==
  \E n1 \in NetsFor(mgr[det.manager]), call2 \in CallOutcomes, n3 \in ChangeNets :
     RecordChange(EditRecordRRSet(result, record), "create", "updated", n1, call2, n3)

\* on_delete_record_result(confirmed, record)
OnDeleteRecordResult(confirmed, record) ==
  IF ~confirmed
  THEN /\ notes' = <<>>
       /\ calls' = <<>>
       /\ UNCHANGED <<mgr, server_vars, all_records, records_table>>
  ELSE \E n1 \in NetsFor(mgr[det.manager]), call2 \in CallOutcomes, n3 \in ChangeNets :
          RecordChange(DeleteRecordRRSet(record), "delete", "deleted", n1, call2, n3)

\* A form button that rejects the input: the error is notified, nothing is dismissed
FormStays(f, op) ==
  /\ notes' = f.notes
  /\ calls' = <<>>
  /\ last' = op
  /\ UNCHANGED <<phase, modal, managers, mgr, server_vars, zone_vars, record_vars>>

FormCancelled(op) ==
  /\ modal' = NoModal
  /\ notes' = <<>>
  /\ calls' = <<>>
  /\ last' = op
  /\ UNCHANGED <<phase, managers, mgr, server_vars, zone_vars, record_vars>>

\* A button of CreateRecordModal, and the callback its dismiss runs
CreateRecordButton(button, name_input, rtype, content_input, ttl_input) ==
  /\ phase = "details" /\ modal.kind = "create_record"
  /\ LET f == CreateRecordForm(button, name_input, rtype, content_input, ttl_input)
         op == [op |-> "create_record_button", button |-> button,
                inputs |-> [name |-> name_input, type |-> rtype,
                            content |-> content_input, ttl |-> ttl_input]]
     IN  CASE f.outcome = "rejected" -> FormStays(f, op)
           [] f.outcome = "dismiss" /\ f.result = NoneValue -> FormCancelled(op)
           [] OTHER ->
                /\ modal' = NoModal
                /\ last' = op @@ [result |-> f.result]
                /\ OnCreateRecordResult(f.result)
                /\ UNCHANGED <<phase, managers, zone_vars, det, record_search>>
  /\ WithinFailures

\* action_edit_record with the table's cursor on `row`
ActionEditRecord(row) ==
  /\ phase = "details" /\ modal = NoModal
  /\ IF row < 0
     THEN /\ notes' = <<Notify(<<"Please select a record to edit">>, "warning")>>
          /\ calls' = <<>>
          /\ last' = [op |-> "action_edit_record", row |-> row]
          /\ UNCHANGED <<phase, modal, managers, mgr, server_vars, zone_vars, record_vars>>
     ELSE IF row + 1 > Len(all_records)
     THEN Crash([op |-> "action_edit_record", row |-> row])
     ELSE /\ modal' = [kind |-> "edit_record", record |-> all_records[row + 1]]
          /\ notes' = <<>>
          /\ calls' = <<>>
          /\ last' = [op |-> "action_edit_record", row |-> row]
          /\ UNCHANGED <<phase, managers, mgr, server_vars, zone_vars, record_vars>>
  /\ WithinFailures

\* A button of EditRecordModal, and the callback its dismiss runs
EditRecordButton(button, content_input, ttl_input) ==
  /\ phase = "details" /\ modal.kind = "edit_record"
  /\ LET f == EditRecordForm(button, content_input, ttl_input)
         op == [op |-> "edit_record_button", button |-> button,
                inputs |-> [content |-> content_input, ttl |-> ttl_input]]
     IN  CASE f.outcome = "rejected" -> FormStays(f, op)
           [] f.outcome = "dismiss" /\ f.result = NoneValue -> FormCancelled(op)
           [] OTHER ->
                /\ modal' = NoModal
                /\ last' = op @@ [result |-> f.result]
                /\ OnEditRecordResult(f.result, modal.record)
                /\ UNCHANGED <<phase, managers, zone_vars, det, record_search>>
  /\ WithinFailures

\* action_delete_record with the table's cursor on `row`
ActionDeleteRecord(row) ==
  /\ phase = "details" /\ modal = NoModal
  /\ IF row < 0
     THEN /\ notes' = <<Notify(<<"Please select a record to delete">>, "warning")>>
          /\ calls' = <<>>
          /\ last' = [op |-> "action_delete_record", row |-> row]
          /\ UNCHANGED <<phase, modal, managers, mgr, server_vars, zone_vars, record_vars>>
     ELSE IF row + 1 > Len(all_records)
     THEN Crash([op |-> "action_delete_record", row |-> row])
     ELSE /\ modal' = [kind |-> "confirm", what |-> "record",
                       record |-> all_records[row + 1],
                       message |-> <<"Delete record ", all_records[row + 1].name,
                                     all_records[row + 1].type>>]
          /\ notes' = <<>>
          /\ calls' = <<>>
          /\ last' = [op |-> "action_delete_record", row |-> row]
          /\ UNCHANGED <<phase, managers, mgr, server_vars, zone_vars, record_vars>>
  /\ WithinFailures

\* ConfirmModal.on_button_pressed over a record, and the callback its dismiss runs
ConfirmRecordButton(button) ==
  /\ phase = "details" /\ modal.kind = "confirm" /\ modal.what = "record"
  /\ modal' = NoModal
  /\ last' = [op |-> "confirm_button", button |-> button]
  /\ OnDeleteRecordResult(Confirmed(button), modal.record)
  /\ UNCHANGED <<phase, managers, zone_vars, det, record_search>>
  /\ WithinFailures

RecordNameInputs == {<<"w">>}
RecordTypes == {sA}
ContentInputs == {<<" ", "9", ".", "9">>}
TtlInputs == {<<"6", "0", " ">>}
RecordSearchTerms == {<<>>, <<"t", "x", "t">>}

ZoneNameInputs == {<<" ", "n", ".", " ">>}
NsInputs == {<<>>, <<" ", "a", ".", ",", " ", ",", "b", ".">>}
Kinds == {sNative, sMaster, sSlave}
KindInputs == {sNative}
\* Select.BLANK, which is no string, and the options str(i)
SelectBlank == <<"BLANK">>
SelectValues == {SelectBlank} \cup {DecStr(i) : i \in 0..(Len(managers) - 1)}

StartOuts == {[s \in ServerIds |-> "ok"]}

Next ==
  \/ \E outs \in StartOuts : AppOnMount(outs)
  \/ \E nets \in LoadNets(managers, mgr) : ZonesScreenOnMount(nets)
  \/ \E nets \in LoadNets(managers, mgr) : ZonesActionRefresh(nets)
  \/ \E term \in SearchTerms : ZoneSearchChanged(term)
  \/ ActionCreateZone
  \/ \E button \in {"create-btn", "cancel-btn"}, name_input \in ZoneNameInputs,
        kind \in KindInputs, ns_input \in NsInputs, sel \in SelectValues :
       CreateZoneButton(button, name_input, kind, ns_input, sel)
  \/ ModalCancel
  \/ \E row \in CursorRows(zones_table) : ActionDeleteZone(row)
  \/ \E button \in {"yes-btn", "no-btn"} : ConfirmZoneButton(button)
  \/ \E row \in CursorRows(zones_table) : RowSelected(row)
  \/ DetailsOnMount
  \/ DetailsActionRefresh
  \/ \E term \in RecordSearchTerms : RecordSearchChanged(term)
  \/ \E nets \in LoadNets(managers, mgr) : ActionBack(nets)
  \/ ActionCreateRecord
  \/ \E button \in {"create-btn", "cancel-btn"}, name_input \in RecordNameInputs,
        rtype \in RecordTypes, content_input \in ContentInputs, ttl_input \in TtlInputs :
       CreateRecordButton(button, name_input, rtype, content_input, ttl_input)
  \/ \E row \in CursorRows(records_table) : ActionEditRecord(row)
  \/ \E button \in {"save-btn", "cancel-btn"}, content_input \in ContentInputs,
        ttl_input \in TtlInputs : EditRecordButton(button, content_input, ttl_input)
  \/ \E row \in CursorRows(records_table) : ActionDeleteRecord(row)
  \/ \E button \in {"yes-btn", "no-btn"} : ConfirmRecordButton(button)

Spec == Init /\ [][Next]_vars

\* ------------------------------------------------------ the five changes

\* The handlers that create and delete zones and create, edit and delete
\* records, with the handlers that lead to them; a details screen stays up.
NextChange ==
  \/ \E outs \in StartOuts : AppOnMount(outs)
  \/ \E nets \in LoadNets(managers, mgr) : ZonesScreenOnMount(nets)
  \/ ActionCreateZone
  \/ \E button \in {"create-btn", "cancel-btn"}, name_input \in ZoneNameInputs,
        kind \in KindInputs, ns_input \in NsInputs \ {<<>>}, sel \in SelectValues :
       CreateZoneButton(button, name_input, kind, ns_input, sel)
  \/ ModalCancel
  \/ \E row \in CursorRows(zones_table) : ActionDeleteZone(row)
  \/ \E button \in {"yes-btn", "no-btn"} : ConfirmZoneButton(button)
  \/ \E row \in CursorRows(zones_table) : RowSelected(row)
  \/ DetailsOnMount
  \/ ActionCreateRecord
  \/ \E button \in {"create-btn", "cancel-btn"}, name_input \in RecordNameInputs,
        rtype \in RecordTypes, content_input \in ContentInputs, ttl_input \in TtlInputs :
       CreateRecordButton(button, name_input, rtype, content_input, ttl_input)
  \/ \E row \in CursorRows(records_table) : ActionEditRecord(row)
  \/ \E button \in {"save-btn", "cancel-btn"}, content_input \in ContentInputs,
        ttl_input \in TtlInputs : EditRecordButton(button, content_input, ttl_input)
  \/ \E row \in CursorRows(records_table) : ActionDeleteRecord(row)
  \/ \E button \in {"yes-btn", "no-btn"} : ConfirmRecordButton(button)

SpecChange == Init /\ [][NextChange]_vars

\* ------------------------------------------------ search and selection

ViewRecordTerms == {<<>>, <<"w">>, <<"T", "x", "t">>}

\* The handlers of both screens that load, filter and select, with the
\* deletes the selections lead to; an edit form is left by escape and a
\* details screen stays up.
NextView ==
  \/ \E outs \in StartOuts : AppOnMount(outs)
  \/ \E nets \in LoadNets(managers, mgr) : ZonesScreenOnMount(nets)
  \/ \E nets \in LoadNets(managers, mgr) : ZonesActionRefresh(nets)
  \/ \E term \in SearchTerms : ZoneSearchChanged(term)
  \/ \E row \in CursorRows(zones_table) : ActionDeleteZone(row)
  \/ \E button \in {"yes-btn", "no-btn"} : ConfirmZoneButton(button)
  \/ \E row \in CursorRows(zones_table) : RowSelected(row)
  \/ DetailsOnMount
  \/ DetailsActionRefresh
  \/ \E term \in ViewRecordTerms : RecordSearchChanged(term)
  \/ \E row \in CursorRows(records_table) : ActionEditRecord(row)
  \/ \E row \in CursorRows(records_table) : ActionDeleteRecord(row)
  \/ \E button \in {"yes-btn", "no-btn"} : ConfirmRecordButton(button)
  \/ ModalCancel

SpecView == Init /\ [][NextView]_vars

\* ---------------------------------------------- record-sets of every shape

sHi == <<"h", "i">>
sBye == <<"b", "y", "e">>

\* Record-sets a server can answer with: one record, two records, no record,
\* no 'records' key, and one without ttl whose record has no 'disabled' key.
RRSetPool ==
  { RRSet(<<"a", ".">>, sA, <<<<c1, FALSE>>>>, 300),
    RRSet(<<"b", ".">>, sTXT, <<<<sHi, FALSE>>, <<sBye, TRUE>>>>, 60),
    RRSet(<<"c", ".">>, sA, <<>>, 60),
    [name |-> <<"d", ".">>, type |-> sNS, ttl |-> 60],
    [name |-> <<"e", ".">>, type |-> sTXT, records |-> <<[content |-> sHi]>>] }

RECURSIVE SeqsUpTo(_, _)
SeqsUpTo(S, n) ==
  IF n = 0 THEN {<<>>}
  ELSE LET shorter == SeqsUpTo(S, n - 1)
       IN  shorter \cup {Append(q, x) : q \in {r \in shorter : Len(r) = n - 1}, x \in S}

InitFlatten ==
  \E rrsets \in SeqsUpTo(RRSetPool, MaxRRSets) :
    InitState([s \in ServerIds |->
                 IF s = 1
                 THEN <<[name |-> zEx, details |-> [kind |-> sNative, rrsets |-> rrsets]]>>
                 ELSE InitRemote[s]],
              0, 0)

\* Start, the zone list, Enter on a zone and the loads of its records
NextFlatten ==
  \/ \E outs \in StartOuts : AppOnMount(outs)
  \/ \E nets \in LoadNets(managers, mgr) : ZonesScreenOnMount(nets)
  \/ \E row \in CursorRows(zones_table) : RowSelected(row)
  \/ DetailsOnMount
  \/ DetailsActionRefresh

SpecFlatten == InitFlatten /\ [][NextFlatten]_vars

\* ------------------------------------- the record-set of a created record

MaxNameLen == 2
MaxZoneNameLen == 3

\* result['name'] and self.zone_name as on_create_record_result can be
\* handed them, the empty name and names with and without a final dot
ResultNames == SeqsUpTo({"w", "."}, MaxNameLen)
ZoneNames == SeqsUpTo({"e", "."}, MaxZoneNameLen)

InitCreateRecord ==
  \E name \in ResultNames, zone_name \in ZoneNames :
    InitWith(InitRemote, 0, 0,
             [op |-> "create_record_result",
              result |-> [name |-> name, type |-> sA, content |-> c1, ttl |-> 60],
              zone_name |-> zone_name])

\* Lines 473-482 of on_create_record_result: full_name and the RRSet
BuildCreateRecordRRSet ==
  /\ last.op = "create_record_result"
  /\ last' = [op |-> "create_record_rrset", result |-> last.result,
              zone_name |-> last.zone_name,
              rrset |-> CreateRecordRRSet(last.result, last.zone_name)]
  /\ UNCHANGED <<phase, modal, managers, mgr, server_vars, zone_vars, record_vars,
                 calls, notes, failures_left>>

NextCreateRecord == BuildCreateRecordRRSet

SpecCreateRecord == InitCreateRecord /\ [][NextCreateRecord]_vars

\* ------------------------------------------- the operations of PDNSManager

sNew == <<"n", ".">>
GatewayZoneIds == {zEx, zAb}
GatewayZoneNames == {zEx, sNew}

\* What a caller of one PDNSManager operation sees: r is what it returned or
\* raised, the manager and the calls on the wire with it.
GatewayCalled(op, s, r) ==
  /\ phase = "start"
  /\ mgr' = [mgr EXCEPT ![s] = r.m]
  /\ calls' = r.calls
  /\ last' = [op |-> op, srv |-> s, raised |-> r.raised, exc |-> r.exc]
  /\ UNCHANGED <<phase, modal, managers, zone_vars, record_vars, notes, failures_left>>

\* The server's zones after an operation that can change them: an accepted
\* change is one of the changes the servers accept in this behaviour
GatewayChanged(s, r) ==
  /\ remote' = [remote EXCEPT ![s] = r.value]
  /\ IF r.raised THEN UNCHANGED mutations_left
     ELSE mutations_left > 0 /\ mutations_left' = mutations_left - 1

GatewayConnect(s, outcome) ==
  /\ GatewayCalled("connect", s, Connect(s, mgr[s], outcome))
  /\ UNCHANGED server_vars

GatewayGetZones(s, net) ==
  /\ GatewayCalled("get_zones", s, GetZones(s, mgr[s], net, remote[s]))
  /\ UNCHANGED server_vars

GatewayGetZone(s, zone_id, net) ==
  /\ GatewayCalled("get_zone", s, GetZone(s, mgr[s], zone_id, net, remote[s]))
  /\ UNCHANGED server_vars

GatewayCreateZone(s, name, net) ==
  LET r == CreateZone(s, mgr[s], name, sNative, <<>>, net, remote[s])
  IN  /\ Len(remote[s]) < MaxZones
      /\ GatewayCalled("create_zone", s, r)
      /\ GatewayChanged(s, r)

GatewayDeleteZone(s, zone_id, net) ==
  LET r == DeleteZone(s, mgr[s], zone_id, net, remote[s])
  IN  /\ GatewayCalled("delete_zone", s, r)
      /\ GatewayChanged(s, r)

\* The five operations called in any order on the managers of the
\* configuration, whatever the network answers
NextGateway ==
  \/ \E s \in ServerIds, outcome \in ConnOutcomes : GatewayConnect(s, outcome)
  \/ \E s \in ServerIds : \E net \in NetsFor(mgr[s]) : GatewayGetZones(s, net)
  \/ \E s \in ServerIds, zone_id \in GatewayZoneIds :
        \E net \in NetsFor(mgr[s]) : GatewayGetZone(s, zone_id, net)
  \/ \E s \in ServerIds, name \in GatewayZoneNames :
        \E net \in NetsFor(mgr[s]) : GatewayCreateZone(s, name, net)
  \/ \E s \in ServerIds, zone_id \in GatewayZoneIds :
        \E net \in NetsFor(mgr[s]) : GatewayDeleteZone(s, zone_id, net)

InitGateway == InitState(InitRemote, MaxMutations, 0)

SpecGateway == InitGateway /\ [][NextGateway]_vars

\* ------------------------------------------------- start, load and filter

\* Every answer to every connect of the start
AllStartOuts == [ServerIds -> ConnOutcomes]

MaxLoadFailures == 3

\* The servers with their zones the other way round, one server holding two
SwappedRemote == [s \in ServerIds |-> IF s % 2 = 1 THEN <<ZoneAb, ZoneEx>> ELSE <<ZoneEx>>]

ZoneFilterTerms ==
  {<<>>, <<"E", "X">>, <<"e", "x">>, <<"e", "X", ".">>, <<"n", "/", "a">>, <<"N", "/", "A">>,
   <<"p", "2">>, <<"N", "S", "1">>, <<"R">>, <<"z", "z">>}

InitLoad == \E rem \in {InitRemote, SwappedRemote} : InitState(rem, 0, MaxLoadFailures)

NextLoad ==
  \/ \E outs \in AllStartOuts : AppOnMount(outs)
  \/ \E nets \in LoadNets(managers, mgr) : ZonesScreenOnMount(nets)
  \/ \E nets \in LoadNets(managers, mgr) : ZonesActionRefresh(nets)
  \/ \E term \in ZoneFilterTerms : ZoneSearchChanged(term)
  \/ \E row \in CursorRows(zones_table) : RowSelected(row)
  \/ DetailsOnMount
  \/ DetailsActionRefresh
  \/ \E nets \in LoadNets(managers, mgr) : ActionBack(nets)

SpecLoad == InitLoad /\ [][NextLoad]_vars

\* ------------------------------------------------------------------ forms

sAbc == <<"a", "b", "c">>
BlankInputs == {<<>>, <<" ", " ">>}
NotIntegerInputs == {sAbc, <<>>, <<"1", "_", "_", "0">>, <<"1", ".", "5">>}
IntegerInputs == {<<"6", "0", " ">>, <<"-", "1", "_", "0">>}

InitForms == InitState(InitRemote, MaxMutations, 0)

NextForms ==
  \/ \E outs \in StartOuts : AppOnMount(outs)
  \/ \E nets \in LoadNets(managers, mgr) : ZonesScreenOnMount(nets)
  \/ ActionCreateZone
  \/ \E button \in {"create-btn", "cancel-btn"}, name_input \in ZoneNameInputs \cup BlankInputs,
        kind \in KindInputs, ns_input \in NsInputs \ {<<>>}, sel \in SelectValues :
       CreateZoneButton(button, name_input, kind, ns_input, sel)
  \/ ModalCancel
  \/ \E row \in CursorRows(zones_table) : RowSelected(row)
  \/ DetailsOnMount
  \/ ActionCreateRecord
  \/ \E button \in {"create-btn", "cancel-btn"},
        name_input \in RecordNameInputs \cup {<<>>}, rtype \in RecordTypes,
        content_input \in ContentInputs \cup {<<" ", " ">>},
        ttl_input \in IntegerInputs \cup NotIntegerInputs :
       CreateRecordButton(button, name_input, rtype, content_input, ttl_input)
  \/ \E row \in CursorRows(records_table) : ActionEditRecord(row)
  \/ \E button \in {"save-btn", "cancel-btn"},
        content_input \in ContentInputs \cup {<<" ", " ">>},
        ttl_input \in IntegerInputs \cup NotIntegerInputs :
       EditRecordButton(button, content_input, ttl_input)

SpecForms == InitForms /\ [][NextForms]_vars

\* -------------------------------------------------------------- properties

MutationCalls == {"create_zone", "delete_zone", "create_records", "delete_records"}
MutationButtons ==
  {"create_zone_button", "create_record_button", "edit_record_button", "confirm_button"}

\* The servers whose call failed among the calls cs
FailedServers(cs) == {cs[i].srv : i \in {j \in 1..Len(cs) : ~cs[j].ok}}

\* The zone summaries of the servers ms, in order, leaving out the servers in bad
RECURSIVE ZonesHeldBy(_, _, _)
ZonesHeldBy(ms, rem, bad) ==
  IF ms = <<>> THEN <<>>
  ELSE (IF Head(ms) \in bad THEN <<>> ELSE ZoneDataOf(Head(ms), rem[Head(ms)]))
       \o ZonesHeldBy(Tail(ms), rem, bad)

\* The record-sets server s holds for the zone zone_id
RemoteRRSets(rem, s, zone_id) == FindZone(rem[s], zone_id).details.rrsets

ErrorNotes(ns) == SelectSeq(ns, LAMBDA n : n.severity = "error")

\* C1: after load_zones, whichever servers failed to list their zones, the
\* zone collection holds the zones of the servers that listed them, server by
\* server in the order of the managers and each server's zones in the order it
\* returned them; there is one error notification per failed server, naming
\* it; every manager was called, after a failure too; the zone screen is up.
C1_LoadZonesPartial ==
  last.op = "load_zones" =>
    /\ phase = "zones"
    /\ Len(calls) = Len(managers)
    /\ \A k \in 1..Len(managers) : calls[k].srv = managers[k] /\ calls[k].op = "zones"
    /\ all_zones = ZonesHeldBy(managers, remote, FailedServers(calls))
    /\ zones_table = RowsOf(all_zones)
    /\ Len(ErrorNotes(notes)) = Cardinality(FailedServers(calls))
    /\ \A s \in FailedServers(calls) :
         \E i \in 1..Len(notes) :
            notes[i].severity = "error" /\ notes[i].message[2] = ManagerName(s)

C1_Witness ==
  /\ last.op = "load_zones"
  /\ Len(managers) = 2
  /\ ~calls[1].ok /\ calls[2].ok
  /\ all_zones # <<>>
  /\ remote[managers[1]] # <<>>

\* C2: a delete_zone or delete_records call is issued only by the Yes button
\* of a confirmation dialog, and for the zone or record that dialog named; any
\* other answer issues no call and leaves the servers and the loaded
\* collections as they were.
C2_DeleteNeedsYes ==
  [][/\ \A i \in 1..Len(calls') :
          /\ calls'[i].op = "delete_zone" =>
               /\ modal.kind = "confirm" /\ modal.what = "zone"
               /\ last'.op = "confirm_button" /\ last'.button = "yes-btn"
               /\ calls'[i].arg = modal.zone.id
               /\ calls'[i].srv = modal.zone.manager
          /\ calls'[i].op = "delete_records" =>
               /\ modal.kind = "confirm" /\ modal.what = "record"
               /\ last'.op = "confirm_button" /\ last'.button = "yes-btn"
               /\ calls'[i].arg.rrset.name = modal.record.name
               /\ calls'[i].arg.rrset.type = modal.record.type
               /\ calls'[i].arg.zone = det.zone_id
               /\ calls'[i].srv = det.manager
     /\ (modal.kind = "confirm" /\ last'.op = "confirm_button" /\ last'.button # "yes-btn")
          => /\ calls' = <<>>
             /\ remote' = remote
             /\ all_zones' = all_zones
             /\ all_records' = all_records
             /\ modal' = NoModal
    ]_vars

C2_Witness ==
  /\ last.op = "confirm_button" /\ last.button = "yes-btn"
  /\ \E i \in 1..Len(calls) : calls[i].op = "delete_zone" /\ calls[i].ok
  /\ remote # InitRemote

Blank(s) == \A i \in 1..Len(s) : s[i] = " "

\* C3: the submit button of the zone form with a name that is blank, of the
\* record form with a blank name, a blank content or a TTL that is no
\* integer ("abc"), or of the edit form with such a TTL, raises one error
\* notification, issues no remote call, and leaves the form up and the
\* servers and the loaded collections as they were.
C3_InvalidFormStays ==
  [][(\/ /\ last'.op = "create_zone_button" /\ last'.button = "create-btn"
         /\ Blank(last'.inputs.name)
      \/ /\ last'.op = "create_record_button" /\ last'.button = "create-btn"
         /\ \/ Blank(last'.inputs.name)
            \/ Blank(last'.inputs.content)
            \/ last'.inputs.ttl \in NotIntegerInputs
      \/ /\ last'.op = "edit_record_button" /\ last'.button = "save-btn"
         /\ last'.inputs.ttl \in NotIntegerInputs)
       => /\ Len(notes') = 1 /\ notes'[1].severity = "error"
          /\ calls' = <<>>
          /\ modal.kind \in {"create_zone", "create_record", "edit_record"}
          /\ modal' = modal
          /\ phase' = phase
          /\ remote' = remote
          /\ all_zones' = all_zones /\ all_records' = all_records
    ]_vars

C3_Witness ==
  /\ last.op = "create_record_button" /\ last.button = "create-btn"
  /\ last.inputs.ttl = sAbc
  /\ ~Blank(last.inputs.name) /\ ~Blank(last.inputs.content)
  /\ modal.kind = "create_record"
  /\ Len(notes) = 1 /\ notes[1].severity = "error"

\* C4: when a create or delete of a zone, or a create, edit or delete of a
\* record, fails at the gateway, the handler raises one error notification,
\* the loaded collections, the tables and the servers are as before, and no
\* call follows the failed one: nothing is loaded again.
C4_FailedMutation ==
  [][(/\ last'.op \in MutationButtons
      /\ \E i \in 1..Len(calls') : ~calls'[i].ok
      /\ ~\E i \in 1..Len(calls') : calls'[i].op \in MutationCalls /\ calls'[i].ok)
       => /\ Len(notes') = 1 /\ notes'[1].severity = "error"
          /\ all_zones' = all_zones /\ zones_table' = zones_table
          /\ all_records' = all_records /\ records_table' = records_table
          /\ remote' = remote
          /\ \A i \in 1..Len(calls') : ~calls'[i].ok => i = Len(calls')
          /\ \A i \in 1..Len(calls') : calls'[i].op # "zones"
          /\ phase' = phase
    ]_vars

C4_Witness ==
  /\ last.op = "edit_record_button"
  /\ Len(calls) = 2 /\ calls[2].op = "create_records" /\ ~calls[2].ok
  /\ Len(notes) = 1 /\ notes[1].severity = "error"
  /\ all_records # <<>>
  /\ remote = InitRemote

\* C5 as stated: a failed zone list during a zone load and a failed zone get
\* during a record load leave the collection loaded before as it was.
C5_Original ==
  [][/\ (last'.op = "load_zones" /\ FailedServers(calls') # {})
          => all_zones' = all_zones
     /\ (last'.op = "load_records" /\ FailedServers(calls') # {})
          => all_records' = all_records
    ]_vars

\* C5: a failed zone get during a record load raises an error notification
\* and leaves the record collection and the record table as they were. A
\* failed zone list during a zone load raises an error notification for that
\* server, and the zone collection is built again from the servers whose
\* list succeeded: it holds no zone of the failed server, loaded before or not.
C5_FailedLoad ==
  [][/\ (last'.op = "load_records" /\ FailedServers(calls') # {})
          => /\ all_records' = all_records
             /\ records_table' = records_table
             /\ Len(notes') = 1 /\ notes'[1].severity = "error"
     /\ (last'.op = "load_zones" /\ FailedServers(calls') # {})
          => /\ all_zones' = ZonesHeldBy(managers, remote, FailedServers(calls'))
             /\ \A i \in 1..Len(all_zones') :
                  all_zones'[i].manager \notin FailedServers(calls')
             /\ Len(ErrorNotes(notes')) = Cardinality(FailedServers(calls'))
             /\ remote' = remote
    ]_vars

C5_Witness ==
  /\ last.op = "load_zones" /\ last.via = "refresh"
  /\ FailedServers(calls) # {}
  /\ all_zones # <<>>
  /\ \E s \in FailedServers(calls) : remote[s] # <<>>
  /\ ErrorNotes(notes) # <<>>

\* C6: saving the edit form submits, for the record the form was opened on,
\* one record-set with the record's name and type, the TTL of the form, and
\* one record with the content of the form and the record's disabled flag;
\* when the server accepts it, the server holds for that name and type that
\* record-set alone, with that one record.
C6_EditReplaces ==
  [][(last'.op = "edit_record_button" /\ last'.button = "save-btn" /\ calls' # <<>>)
       => /\ modal.kind = "edit_record"
          /\ calls'[1].ok => (Len(calls') >= 2 /\ calls'[2].op = "create_records")
          /\ \A i \in 1..Len(calls') :
               calls'[i].op = "create_records" =>
                 LET rr == calls'[i].arg.rrset
                     now == SelectSeq(RemoteRRSets(remote', det.manager, det.zone_id),
                                      LAMBDA x : /\ x.name = modal.record.name
                                                 /\ x.type = modal.record.type)
                 IN  /\ rr.name = modal.record.name
                     /\ rr.type = modal.record.type
                     /\ rr.ttl = last'.result.ttl
                     /\ rr.records = <<[content |-> last'.result.content,
                                        disabled |-> modal.record.disabled]>>
                     /\ calls'[i].ok => (now = <<rr>> /\ Len(now[1].records) = 1)
    ]_vars

C6_Witness ==
  /\ last.op = "edit_record_button"
  /\ \E i \in 1..Len(calls) : calls[i].op = "create_records" /\ calls[i].ok
  /\ Len(ZoneEx.details.rrsets[2].records) = 2
  /\ \E i \in 1..Len(all_records) :
       /\ all_records[i].name = sWwwEx /\ all_records[i].disabled
       /\ Len(all_records[i].rrset.records) = 1

\* C7: confirming the deletion of a record submits a record-set with the
\* record's name and type and no records; when the server accepts it, the
\* server holds no record-set of that name and type.
C7_DeleteRemovesRRSet ==
  [][/\ (/\ last'.op = "confirm_button" /\ last'.button = "yes-btn"
         /\ modal.kind = "confirm" /\ modal.what = "record"
         /\ calls' # <<>> /\ calls'[1].ok)
          => (Len(calls') >= 2 /\ calls'[2].op = "delete_records")
     /\ \A i \in 1..Len(calls') :
          calls'[i].op = "delete_records" =>
            /\ calls'[i].arg.rrset.name = modal.record.name
            /\ calls'[i].arg.rrset.type = modal.record.type
            /\ calls'[i].arg.rrset.records = <<>>
            /\ calls'[i].ok =>
                 \A j \in 1..Len(RemoteRRSets(remote', det.manager, det.zone_id)) :
                    LET x == RemoteRRSets(remote', det.manager, det.zone_id)[j]
                    IN  ~(x.name = modal.record.name /\ x.type = modal.record.type)
    ]_vars

C7_Witness ==
  /\ last.op = "confirm_button" /\ last.button = "yes-btn"
  /\ \E i \in 1..Len(calls) :
       /\ calls[i].op = "delete_records" /\ calls[i].ok
       /\ calls[i].arg.rrset.name = sWwwEx
  /\ Len(ZoneEx.details.rrsets[2].records) = 2
  /\ \A i \in 1..Len(all_records) : all_records[i].name # sWwwEx

\* C8: a create or delete of a zone that succeeded is followed by a list call
\* to every connected server, and a create, edit or delete of a record that
\* succeeded by a get of the zone; when those calls succeed, the loaded
\* collection is what the servers hold after the change.
C8_ReloadAfterChange ==
  /\ (last.op \in {"create_zone_button", "confirm_button"} /\ phase = "zones")
       => \A i \in 1..Len(calls) :
            (calls[i].op \in {"create_zone", "delete_zone"} /\ calls[i].ok)
              => /\ \A k \in 1..Len(managers) :
                      \E j \in (i + 1)..Len(calls) : calls[j].srv = managers[k]
                 /\ FailedServers(calls) = {}
                      => /\ \A k \in 1..Len(managers) :
                              \E j \in (i + 1)..Len(calls) :
                                 calls[j].srv = managers[k] /\ calls[j].op = "zones"
                         /\ all_zones = ZonesHeldBy(managers, remote, {})
  /\ (last.op \in {"create_record_button", "edit_record_button", "confirm_button"}
        /\ phase = "details")
       => \A i \in 1..Len(calls) :
            (calls[i].op \in {"create_records", "delete_records"} /\ calls[i].ok)
              => /\ \E j \in (i + 1)..Len(calls) : calls[j].srv = det.manager
                 /\ FailedServers(calls) = {}
                      => /\ \E j \in (i + 1)..Len(calls) :
                              calls[j].op = "get_zone" /\ calls[j].arg = det.zone_id
                         /\ all_records =
                              FlattenRRSets(RemoteRRSets(remote, det.manager, det.zone_id))

C8_Witness ==
  /\ last.op = "create_record_button"
  /\ \E i \in 1..Len(calls) : calls[i].op = "create_records" /\ calls[i].ok
  /\ FailedServers(calls) = {}
  /\ remote # InitRemote
  /\ Len(all_records) = 4

\* C9: on_mount calls connect once for every configured server, in the
\* configured order, whatever the earlier connects answered; the managers are
\* the servers whose connect succeeded, in that order; each failed server has
\* an error notification naming it. With no server connected, a further error
\* is notified, the app stays where it is without a zone screen, and nothing
\* has been loaded.
C9_Startup ==
  /\ last.op = "app_on_mount" =>
       /\ Len(calls) = NumServers
       /\ \A s \in ServerIds : calls[s].op = "connect" /\ calls[s].srv = s
       /\ managers = SelectSeq([s \in ServerIds |-> s], LAMBDA s : calls[s].ok)
       /\ \A s \in ServerIds :
            ~calls[s].ok =>
              \E i \in 1..Len(notes) :
                 /\ notes[i].severity = "error"
                 /\ Len(notes[i].message) >= 2
                 /\ notes[i].message[2] = ConfigServers[s].name
       /\ Len(ErrorNotes(notes))
            = Cardinality(FailedServers(calls)) + (IF managers = <<>> THEN 1 ELSE 0)
       /\ managers = <<>> =>
            /\ phase = "noservers"
            /\ notes[Len(notes)].severity = "error"
            /\ notes[Len(notes)].message
                 = <<"No servers connected. Please check your configuration.">>
       /\ managers # <<>> => phase = "zones_mount"
  /\ phase = "noservers" =>
       /\ last.op = "app_on_mount"
       /\ managers = <<>> /\ all_zones = <<>> /\ zones_table = <<>>
  /\ phase \in {"zones_mount", "zones"} => managers # <<>>

C9_Witness ==
  /\ last.op = "app_on_mount"
  /\ ~calls[1].ok /\ calls[2].ok
  /\ managers = <<2>>
  /\ phase = "zones_mount"

\* term occurs in field, letters compared without regard to case
FoldsInto(term, field) ==
  \E i \in 0..(Len(field) - Len(term)) :
     \A k \in 1..Len(term) : LowerChar(term[k]) = LowerChar(field[i + k])

SameButCase(t, u) ==
  Len(t) = Len(u) /\ \A k \in 1..Len(t) : LowerChar(t[k]) = LowerChar(u[k])

\* C10: after filter_zones(term) the table shows, in the order of the loaded
\* zones, the rows of exactly the loaded zones whose name, kind, server name
\* or server FQDN contains the term without regard to case; the empty term
\* shows every loaded zone; any term that differs only in case shows the same.
C10_ZoneFilter ==
  last.op = "filter_zones" =>
    /\ zones_table =
         RowsOf(SelectSeq(all_zones,
                          LAMBDA z : \/ FoldsInto(last.term, z.name)
                                     \/ FoldsInto(last.term, z.kind)
                                     \/ FoldsInto(last.term, ManagerName(z.manager))
                                     \/ FoldsInto(last.term, Fqdn(z.manager))))
    /\ last.term = <<>> => zones_table = RowsOf(all_zones)
    /\ \A t \in ZoneFilterTerms :
         SameButCase(t, last.term) => FilterZones(all_zones, t) = zones_table

C10_Witness ==
  /\ last.op = "filter_zones" /\ last.term = <<"E", "X">>
  /\ Len(all_zones) = 3
  /\ Len(zones_table) = 2
  /\ zones_table = FilterZones(all_zones, <<"e", "x">>)

\* C11: a change of the zone search or of the record search leaves the loaded
\* zones and the loaded records as the last load left them, element for
\* element and in order; only the rows of the table change.
C11_FilterKeepsLoaded ==
  [][last'.op \in {"filter_zones", "filter_records"}
       => /\ all_zones' = all_zones
          /\ all_records' = all_records
          /\ remote' = remote
          /\ calls' = <<>>
    ]_vars

C11_Witness ==
  /\ last.op = "filter_records" /\ last.term = <<"w">>
  /\ Len(all_records) = 3
  /\ Len(records_table) = 2
  /\ zone_search # <<>>
  /\ Len(all_zones) = 2

RecordsOf(rrset) == DictGet(rrset, "records", <<>>)

\* The number of records in the record-sets ahead of the i-th
RECURSIVE RecordsBefore(_, _)
RecordsBefore(rrsets, i) ==
  IF i <= 1 THEN 0
  ELSE RecordsBefore(rrsets, i - 1) + Len(RecordsOf(rrsets[i - 1]))

\* C12: after a successful load of a zone's records the loaded collection has
\* as many rows as the record-sets of the zone have records together, a
\* record-set without records giving none; the row of the j-th record of the
\* i-th record-set stands after the rows of all earlier record-sets and of
\* the earlier records of its own, and has the record-set's name, type and
\* ttl, the record's content and disabled flag (false when the record has
\* none) and the record-set itself; the table has one row for each.
C12_Flatten ==
  (/\ last.op = "load_records"
   /\ notes # <<>> /\ notes[1].severity = "information")
  => LET rrsets == RemoteRRSets(remote, det.manager, det.zone_id)
     IN  /\ Len(all_records) = RecordsBefore(rrsets, Len(rrsets) + 1)
         /\ Len(records_table) = Len(all_records)
         /\ \A i \in 1..Len(rrsets) : \A j \in 1..Len(RecordsOf(rrsets[i])) :
              LET row == all_records[RecordsBefore(rrsets, i) + j]
                  record == RecordsOf(rrsets[i])[j]
              IN  /\ row.name = rrsets[i].name
                  /\ row.type = rrsets[i].type
                  /\ "ttl" \in DOMAIN rrsets[i] => row.ttl = rrsets[i].ttl
                  /\ row.content = record.content
                  /\ row.disabled = ("disabled" \in DOMAIN record /\ record.disabled)
                  /\ row.rrset = rrsets[i]

\* a./A with one record, a record-set without records, b./TXT with two
C12_Witness ==
  /\ last.op = "load_records"
  /\ notes # <<>> /\ notes[1].severity = "information"
  /\ det.manager = 1
  /\ LET rrsets == RemoteRRSets(remote, det.manager, det.zone_id)
     IN  /\ Len(rrsets) = 3
         /\ rrsets[1].type = sA /\ Len(RecordsOf(rrsets[1])) = 1
         /\ RecordsOf(rrsets[2]) = <<>>
         /\ rrsets[3].type = sTXT /\ Len(RecordsOf(rrsets[3])) = 2
  /\ Len(all_records) = 3
  /\ Len(SelectSeq(all_records, LAMBDA r : r.type = sTXT)) = 2
  /\ all_records[1].type = sA

\* C13: the record-set built for a created record is named name + "." +
\* zone name when the name is not empty and the zone name alone when it is,
\* with one dot added at the end only when that does not end in a dot; it
\* has the type and ttl of the form and exactly one record, with the content
\* of the form and disabled = false.
C13_CreatedRRSet ==
  last.op = "create_record_rrset"
  => LET name == last.result.name
         base == IF Len(name) > 0 THEN name \o <<".">> \o last.zone_name
                 ELSE last.zone_name
         dotted == Len(base) > 0 /\ base[Len(base)] = "."
     IN  /\ last.rrset.name = IF dotted THEN base ELSE base \o <<".">>
         /\ last.rrset.type = last.result.type
         /\ last.rrset.ttl = last.result.ttl
         /\ Len(last.rrset.records) = 1
         /\ last.rrset.records[1].content = last.result.content
         /\ last.rrset.records[1].disabled = FALSE

\* "w" in the zone "e." gives "w.e."
C13_Witness ==
  /\ last.op = "create_record_rrset"
  /\ last.result.name = <<"w">>
  /\ last.zone_name = <<"e", ".">>
  /\ last.rrset.name = <<"w", ".", "e", ".">>
  /\ Len(last.rrset.records) = 1

GatewayOps == {"connect", "get_zones", "get_zone", "create_zone", "delete_zone"}

\* The call on the wire that is the operation's own
OwnCall(op) == IF op = "get_zones" THEN "zones" ELSE op

\* C14: whenever one of the five operations of a manager fails, what reaches
\* the caller is an Exception built by the manager, with a message and the
\* original failure as its cause, never the failure of the transport as it
\* was raised; and the operation has put no call on the wire twice.
C14_FailuresWrapped ==
  last.op \in GatewayOps
  => /\ last.raised => /\ last.exc.type = "Exception"
                       /\ last.exc.cause # NoExc
                       /\ last.exc # TransportError
     /\ \A i, j \in 1..Len(calls) : calls[i].op = calls[j].op => i = j

\* C15: an operation called on a manager that is not connected first puts a
\* connect on the wire; when that connect fails the operation raises, puts
\* no call of its own on the wire, changes nothing on the server and leaves
\* the manager not connected; when it succeeds the manager is connected and
\* the operation's own call follows; called on a connected manager the
\* operation puts only its own call on the wire. In every state a connected
\* manager has an api_server.
C15_ImplicitConnect ==
  /\ [](\A s \in ServerIds : mgr[s].connected => mgr[s].api_server # "None")
  /\ [][last'.op \in GatewayOps \ {"connect"}
          => LET s == last'.srv
             IN  IF ~mgr[s].connected
                 THEN /\ calls' # <<>>
                      /\ calls'[1].op = "connect" /\ calls'[1].srv = s
                      /\ IF calls'[1].ok
                         THEN /\ mgr'[s].connected
                              /\ Len(calls') = 2
                              /\ calls'[2].op = OwnCall(last'.op) /\ calls'[2].srv = s
                         ELSE /\ Len(calls') = 1
                              /\ last'.raised
                              /\ ~mgr'[s].connected
                              /\ remote' = remote
                 ELSE /\ Len(calls') = 1
                      /\ calls'[1].op = OwnCall(last'.op) /\ calls'[1].srv = s
                      /\ mgr'[s].connected
      ]_vars

\* delete_zone on a manager that was not connected: connect, then the delete
C15_Witness ==
  /\ last.op = "delete_zone" /\ ~last.raised
  /\ Len(calls) = 2
  /\ calls[1].op = "connect" /\ calls[1].ok
  /\ calls[2].op = "delete_zone"
  /\ mgr[last.srv].connected
  /\ \E s \in ServerIds : ~mgr[s].connected /\ mgr[s].api_server # "None"

\* What the zone table shows of a zone, and the record table of a record
ShowsZone(row, zone) == row = ZoneRow(zone)
ShowsRecord(row, record) ==
  /\ row[1] = record.name
  /\ row[2] = record.type
  /\ row[3] = ShownContent(record.content)
  /\ row[5] = YesNo(record.disabled)

\* C16: the zone delete-zone asks about and the zone Enter opens are the zone
\* shown in the row of the zone table the cursor is on, and the record
\* edit-record and delete-record open their dialog for is the record shown in
\* the row of the record table the cursor is on, whatever loads and searches
\* came before.
C16_SelectionIsDisplayed ==
  /\ (last.op = "action_delete_zone" /\ modal.kind = "confirm")
     => /\ last.row < Len(zones_table)
        /\ ShowsZone(zones_table[last.row + 1], modal.zone)
  /\ (last.op = "row_selected" /\ phase = "details_mount")
     => /\ last.row < Len(zones_table)
        /\ zones_table[last.row + 1][1] = ManagerName(det.manager)
        /\ zones_table[last.row + 1][3] = det.zone_name
  /\ (last.op = "action_edit_record" /\ modal.kind = "edit_record")
     => /\ last.row < Len(records_table)
        /\ ShowsRecord(records_table[last.row + 1], modal.record)
  /\ (last.op = "action_delete_record" /\ modal.kind = "confirm")
     => /\ last.row < Len(records_table)
        /\ ShowsRecord(records_table[last.row + 1], modal.record)

\* C17: whenever the zone screen is up its table shows the loaded zones that
\* match the term in the search input, in loaded order, and whenever the
\* details screen is up its table shows the loaded records that match the
\* term in its search input, after a refresh and after the reload that
\* follows a change too.
C17_ViewIsFilteredLoad ==
  /\ phase = "zones" => zones_table = FilterZones(all_zones, zone_search)
  /\ phase = "details" => records_table = FilterRecords(all_records, record_search)

====
